---------------------------- MODULE Spec2Model ----------------------------
(***************************************************************************)
(* A model of mountainsort4's .mda array-file engine                       *)
(* (src/mountainsort4/_mdaio_impl.py): the type registry, the header       *)
(* codec, whole-array read/write, the chunked reader DiskReadMda and       *)
(* appendmda.                                                              *)
(*                                                                         *)
(* One file path is modelled.  Its content is the exact byte string on     *)
(* disk, kept run-length encoded so that arrays with more than 2e9         *)
(* elements (the wide/narrow threshold of MdaHeader) can be written and    *)
(* read.  Numbers are little-endian two's complement / IEEE-754 bytes, as  *)
(* struct.pack and ndarray.tofile produce them.                            *)
(*                                                                         *)
(* A Python value is a record with a field kind: None, True, False, an     *)
(* ndarray [kind, dt, shape, data] with data the elements in C order       *)
(* (numpy's default layout), run-length encoded, an MdaHeader, or a raised *)
(* exception [kind |-> "raise", name].  An element is [i |-> integer].     *)
(***************************************************************************)
EXTENDS Integers, Sequences, FiniteSets, TLC

VARIABLES
    file,   \* the file at the path: [exists, bytes], bytes run-length encoded
    last,   \* the last library call: its name, arguments, return value,
            \* and the file as it was before the call
    made    \* history: how the current file content came about

vars == <<file, last, made>>

----------------------------------------------------------------------------
(* Bounds of the model *)

MaxDim == 2      \* small axis sizes are 1..MaxDim
MaxElems == 4    \* small arrays hold at most MaxElems elements
MaxStart == 2    \* chunk start indices are -1..MaxStart
MaxAppends == 1  \* appendmda calls on one file
MaxData == 1     \* data bytes after an externally produced header

(* Program constants *)

WideThreshold == 2000000000   \* 2e9 in MdaHeader.__init__
MaxNumDims == 6               \* _read_header: num_dims > 6 is invalid
MinNumDims == 1               \* _read_header: num_dims < 1 is invalid

None == [kind |-> "None"]
True == [kind |-> "True"]
False == [kind |-> "False"]
Raise(name) == [kind |-> "raise", name |-> name]

IsRaise(v) == v.kind = "raise"
IsArray(v) == v.kind = "array"
IsHeader(v) == v.kind = "header"

NoFile == [exists |-> FALSE, bytes |-> <<>>]
File(bytes) == [exists |-> TRUE, bytes |-> bytes]
IsFile(f) == f.exists

----------------------------------------------------------------------------
(* Run-length encoded sequences.  A sequence of runs [n |-> count, v |-> x] *)
(* with count > 0 and no two neighbouring runs of the same x: one          *)
(* canonical value per sequence, so = compares contents.                   *)

RECURSIVE RLen(_)
RLen(r) == IF r = <<>> THEN 0 ELSE Head(r).n + RLen(Tail(r))

RCons(n, v, r) ==
    IF n <= 0 THEN r
    ELSE IF r # <<>> /\ Head(r).v = v
         THEN <<[n |-> n + Head(r).n, v |-> v]>> \o Tail(r)
         ELSE <<[n |-> n, v |-> v]>> \o r

RECURSIVE RCat(_, _)
RCat(a, b) ==
    IF a = <<>> THEN b
    ELSE RCons(Head(a).n, Head(a).v, RCat(Tail(a), b))

RECURSIVE RTake(_, _)
RTake(r, k) ==
    IF k <= 0 \/ r = <<>> THEN <<>>
    ELSE IF Head(r).n >= k THEN <<[n |-> k, v |-> Head(r).v]>>
         ELSE <<Head(r)>> \o RTake(Tail(r), k - Head(r).n)

RECURSIVE RDrop(_, _)
RDrop(r, k) ==
    IF k <= 0 \/ r = <<>> THEN r
    ELSE IF Head(r).n > k
         THEN <<[n |-> Head(r).n - k, v |-> Head(r).v]>> \o Tail(r)
         ELSE RDrop(Tail(r), k - Head(r).n)

RSub(r, off, k) == RTake(RDrop(r, off), k)

RECURSIVE RFromSeq(_)
RFromSeq(s) == IF s = <<>> THEN <<>> ELSE RCons(1, Head(s), RFromSeq(Tail(s)))

RECURSIVE RToSeq(_)
RToSeq(r) ==
    IF r = <<>> THEN <<>>
    ELSE IF Head(r).n = 1 THEN <<Head(r).v>> \o RToSeq(Tail(r))
         ELSE <<Head(r).v>> \o
              RToSeq(<<[n |-> Head(r).n - 1, v |-> Head(r).v]>> \o Tail(r))

RFill(n, v) == RCons(n, v, <<>>)

----------------------------------------------------------------------------
(* struct.pack / struct.unpack, little-endian *)

Pow2(k) == 2^k

\* struct.pack('<i', val): four bytes, least significant first.  \div and %
\* round toward minus infinity, so a negative val gives its two's complement.
pack_i(val) ==
    << val % 256, (val \div 256) % 256, (val \div 65536) % 256,
       (val \div 16777216) % 256 >>

\* struct.pack('<q', val): eight bytes; the upper four are the sign extension
\* for every val the model holds.
pack_q(val) ==
    pack_i(val) \o (IF val < 0 THEN <<255, 255, 255, 255>> ELSE <<0, 0, 0, 0>>)

\* struct.unpack('<i', b)[0]
unpack_i(b) ==
    (IF b[4] >= 128 THEN b[4] - 256 ELSE b[4]) * 16777216
        + b[3] * 65536 + b[2] * 256 + b[1]

\* struct.unpack('<q', b)[0], for the values that fit the checker's integers
\* (the upper four bytes are the sign extension of the lower four).
unpack_q(b) ==
    CASE b[5] = 0 /\ b[6] = 0 /\ b[7] = 0 /\ b[8] = 0 /\ b[4] < 128 ->
            unpack_i(SubSeq(b, 1, 4))
      [] b[5] = 255 /\ b[6] = 255 /\ b[7] = 255 /\ b[8] = 255 /\ b[4] >= 128 ->
            unpack_i(SubSeq(b, 1, 4))

----------------------------------------------------------------------------
(* Type registry *)

DTypes == {"uint8", "float32", "int16", "int32", "uint16", "float64", "uint32"}

\* the None that _dt_from_dt_code returns for an unknown code (a dtype is a
\* string, so its None is one too)
NoneDt == "None"

_dt_from_dt_code(dt_code) ==
    CASE dt_code = -2 -> "uint8"
      [] dt_code = -3 -> "float32"
      [] dt_code = -4 -> "int16"
      [] dt_code = -5 -> "int32"
      [] dt_code = -6 -> "uint16"
      [] dt_code = -7 -> "float64"
      [] dt_code = -8 -> "uint32"
      [] OTHER -> NoneDt

_dt_code_from_dt(dt) ==
    CASE dt = "uint8" -> -2
      [] dt = "float32" -> -3
      [] dt = "int16" -> -4
      [] dt = "int32" -> -5
      [] dt = "uint16" -> -6
      [] dt = "float64" -> -7
      [] dt = "uint32" -> -8
      [] OTHER -> None

get_num_bytes_per_entry_from_dt(dt) ==
    CASE dt = "uint8" -> 1
      [] dt = "float32" -> 4
      [] dt = "int16" -> 2
      [] dt = "int32" -> 4
      [] dt = "uint16" -> 2
      [] dt = "float64" -> 8
      [] dt = "uint32" -> 4
      [] OTHER -> None

----------------------------------------------------------------------------
(* Element encodings: what ndarray.tofile writes and np.fromfile reads for  *)
(* one element of each dtype on a little-endian machine.  Element values   *)
(* are [i |-> integer] (a float element holds an integer-valued float); a  *)
(* byte pattern that is no such value decodes to [raw |-> bytes].          *)

Val(i) == [i |-> i]
Raw(b) == [raw |-> b]
IsVal(v) == "i" \in DOMAIN v

Abs(v) == IF v < 0 THEN -v ELSE v

RECURSIVE Log2(_)
Log2(a) == IF a <= 1 THEN 0 ELSE 1 + Log2(a \div 2)

\* IEEE-754 binary32 of the integer v, |v| < 2^24
EncodeF32(v) ==
    IF v = 0 THEN <<0, 0, 0, 0>>
    ELSE LET a == Abs(v)
             e == Log2(a)
             E == e + 127
             M == (a - Pow2(e)) * Pow2(23 - e)
             s == IF v < 0 THEN 128 ELSE 0
         IN  << M % 256, (M \div 256) % 256,
                (E % 2) * 128 + M \div 65536, s + E \div 2 >>

DecodeF32(b) ==
    LET s == b[4] \div 128
        E == (b[4] % 128) * 2 + b[3] \div 128
        M == (b[3] % 128) * 65536 + b[2] * 256 + b[1]
        e == E - 127
    IN  IF b = <<0, 0, 0, 0>> THEN Val(0)
        ELSE IF e >= 0 /\ e <= 23 /\ M % Pow2(23 - e) = 0
             THEN Val((IF s = 1 THEN -1 ELSE 1)
                          * (Pow2(e) + M \div Pow2(23 - e)))
             ELSE Raw(b)

\* IEEE-754 binary64 of the integer v, |v| < 2^21: the low 32 mantissa bits
\* are zero, the high 20 hold the fraction.
EncodeF64(v) ==
    IF v = 0 THEN <<0, 0, 0, 0, 0, 0, 0, 0>>
    ELSE LET a == Abs(v)
             e == Log2(a)
             E == e + 1023
             M == (a - Pow2(e)) * Pow2(20 - e)
             s == IF v < 0 THEN 128 ELSE 0
         IN  << 0, 0, 0, 0, M % 256, (M \div 256) % 256,
                (E % 16) * 16 + M \div 65536, s + E \div 16 >>

DecodeF64(b) ==
    LET s == b[8] \div 128
        E == (b[8] % 128) * 16 + b[7] \div 16
        M == (b[7] % 16) * 65536 + b[6] * 256 + b[5]
        e == E - 1023
    IN  IF b = <<0, 0, 0, 0, 0, 0, 0, 0>> THEN Val(0)
        ELSE IF e >= 0 /\ e <= 20 /\ M % Pow2(20 - e) = 0
                  /\ SubSeq(b, 1, 4) = <<0, 0, 0, 0>>
             THEN Val((IF s = 1 THEN -1 ELSE 1)
                          * (Pow2(e) + M \div Pow2(20 - e)))
             ELSE Raw(b)

\* the bytes of one element of dtype dt holding v
ElemBytes(v, dt) ==
    IF ~IsVal(v) THEN v.raw
    ELSE CASE dt = "uint8" -> <<v.i % 256>>
           [] dt \in {"int16", "uint16"} -> <<v.i % 256, (v.i \div 256) % 256>>
           [] dt \in {"int32", "uint32"} -> pack_i(v.i)
           [] dt = "float32" -> EncodeF32(v.i)
           [] dt = "float64" -> EncodeF64(v.i)

\* the element of dtype dt that the bytes b hold
ElemValue(b, dt) ==
    CASE dt = "uint8" -> Val(b[1])
      [] dt = "uint16" -> Val(b[2] * 256 + b[1])
      [] dt = "int16" ->
            Val((IF b[2] >= 128 THEN b[2] - 256 ELSE b[2]) * 256 + b[1])
      [] dt = "int32" -> Val(unpack_i(b))
      [] dt = "uint32" -> IF b[4] >= 128 THEN Raw(b) ELSE Val(unpack_i(b))
      [] dt = "float32" -> DecodeF32(b)
      [] dt = "float64" -> DecodeF64(b)

\* whether an element value v can be held by dtype dt
InRange(v, dt) ==
    /\ IsVal(v)
    /\ CASE dt = "uint8" -> v.i >= 0 /\ v.i <= 255
         [] dt = "uint16" -> v.i >= 0 /\ v.i <= 65535
         [] dt = "int16" -> v.i >= -32768 /\ v.i <= 32767
         [] dt = "int32" -> TRUE
         [] dt = "uint32" -> v.i >= 0
         [] dt = "float32" -> Abs(v.i) < 16777216
         [] dt = "float64" -> Abs(v.i) < 2097152

\* the bytes of a run-length encoded element sequence (A.tofile(f))
RECURSIVE ElemsToBytes(_, _)
ElemsToBytes(r, dt) ==
    IF r = <<>> THEN <<>>
    ELSE IF get_num_bytes_per_entry_from_dt(dt) = 1
         THEN RCons(Head(r).n, ElemBytes(Head(r).v, dt)[1],
                    ElemsToBytes(Tail(r), dt))
         ELSE RCat(RFromSeq(ElemBytes(Head(r).v, dt)),
                   ElemsToBytes(RDrop(r, 1), dt))

\* the elements held by a byte sequence whose length is a multiple of the
\* element width
RECURSIVE BytesToElems(_, _)
BytesToElems(r, dt) ==
    LET w == get_num_bytes_per_entry_from_dt(dt) IN
    IF r = <<>> THEN <<>>
    ELSE IF w = 1
         THEN RCons(Head(r).n, ElemValue(<<Head(r).v>>, dt),
                    BytesToElems(Tail(r), dt))
         ELSE RCons(1, ElemValue(RToSeq(RTake(r, w)), dt),
                    BytesToElems(RDrop(r, w), dt))

----------------------------------------------------------------------------
(* ndarray: [kind, dt, shape, data], data in C order *)

Array(dt, shape, data) ==
    [kind |-> "array", dt |-> dt, shape |-> shape, data |-> data]

RECURSIVE Prod(_)
Prod(s) == IF s = <<>> THEN 1 ELSE Head(s) * Prod(Tail(s))

RECURSIVE MaxOf(_)
MaxOf(s) ==
    IF Len(s) = 1 THEN s[1]
    ELSE LET m == MaxOf(Tail(s)) IN IF Head(s) > m THEN Head(s) ELSE m

Min2(a, b) == IF a < b THEN a ELSE b

ndim(X) == Len(X.shape)
size(X) == Prod(X.shape)

\* stride of axis j: in Fortran order the product of the axes before it, in
\* C order the product of the axes after it
StrideF(shape, j) == Prod(SubSeq(shape, 1, j - 1))
StrideC(shape, j) == Prod(SubSeq(shape, j + 1, Len(shape)))

RECURSIVE SumTo(_, _)
SumTo(f, n) == IF n = 0 THEN 0 ELSE f[n] + SumTo(f, n - 1)

\* the C-order position of the element at Fortran-order position k
CFromF(k, shape) ==
    SumTo([j \in 1..Len(shape) |->
              ((k \div StrideF(shape, j)) % shape[j]) * StrideC(shape, j)],
          Len(shape))

\* the Fortran-order position of the element at C-order position c
FFromC(c, shape) ==
    SumTo([j \in 1..Len(shape) |->
              ((c \div StrideC(shape, j)) % shape[j]) * StrideF(shape, j)],
          Len(shape))

\* C order and Fortran order list the elements alike when at most one axis
\* is longer than 1.
OneLongAxis(shape) == Cardinality({j \in 1..Len(shape) : shape[j] > 1}) <= 1

\* np.reshape(X, X.size, order='F'): the elements, first axis fastest
FlattenF(X) ==
    IF OneLongAxis(X.shape) THEN X.data
    ELSE LET s == RToSeq(X.data) IN
         RFromSeq([k \in 1..Len(s) |-> s[CFromF(k - 1, X.shape) + 1]])

\* np.reshape(flat, dims, order='F') of a one-dimensional array of dtype dt:
\* ValueError unless the sizes agree
ReshapeF(flat, dt, dims) ==
    IF RLen(flat) # Prod(dims) THEN Raise("ValueError")
    ELSE IF OneLongAxis(dims) THEN Array(dt, dims, flat)
    ELSE LET s == RToSeq(flat) IN
         Array(dt, dims,
               RFromSeq([c \in 1..Len(s) |-> s[FFromC(c - 1, dims) + 1]]))

\* X.astype(dt) for arrays whose values dt can hold: the values are kept
astype(X, dt) == [X EXCEPT !.dt = dt]

RECURSIVE AllInRange(_, _)
AllInRange(r, dt) ==
    IF r = <<>> THEN TRUE
    ELSE InRange(Head(r).v, dt) /\ AllInRange(Tail(r), dt)

----------------------------------------------------------------------------
(* File contents: byte strings b, read and written at a position *)

\* f.seek(pos); f.write(bytes): bytes replace what was at pos..pos+len-1 and
\* extend the file; a gap between the old end and pos reads as zeros.
WriteAt(b, pos, bytes) ==
    LET gap == pos - RLen(b) IN
    RCat(RCat(RCat(RTake(b, pos), RFill(gap, 0)), bytes),
         RDrop(b, pos + RLen(bytes)))

\* whether f.read(n) at pos returns all n bytes (struct.unpack raises
\* struct.error on fewer)
CanRead(b, pos, n) == pos + n <= RLen(b)

_read_int32(b, pos) == unpack_i(RToSeq(RSub(b, pos, 4)))

_read_int64(b, pos) == unpack_q(RToSeq(RSub(b, pos, 8)))

_write_int32(val) == RFromSeq(pack_i(val))

_write_int64(val) == RFromSeq(pack_q(val))

\* np.fromfile(f, dtype=dt, count=count) with f at pos: the whole elements
\* that are there, at most count of them, as a one-dimensional array; fewer
\* than count at the end of the file is no error.
fromfile(b, pos, dt, count) ==
    LET w == get_num_bytes_per_entry_from_dt(dt)
        avail == IF pos >= RLen(b) THEN 0 ELSE RLen(b) - pos
        items == Min2(count, avail \div w)
    IN  Array(dt, <<items>>, BytesToElems(RSub(b, pos, items * w), dt))

----------------------------------------------------------------------------
(* Header codec *)

MdaHeader(dt0, dims0) ==
    LET uses64bitdims == MaxOf(dims0) > WideThreshold IN
    [ kind |-> "header",
      uses64bitdims |-> uses64bitdims,
      dt_code |-> _dt_code_from_dt(dt0),
      dt |-> dt0,
      num_bytes_per_entry |-> get_num_bytes_per_entry_from_dt(dt0),
      num_dims |-> Len(dims0),
      dimprod |-> Prod(dims0),
      dims |-> dims0,
      header_size |-> IF uses64bitdims THEN 3 * 4 + Len(dims0) * 8
                      ELSE (3 + Len(dims0)) * 4 ]

\* a count check that lets 7 dimensions through
InvalidNumDimsOffByOne(num_dims) ==
    (num_dims < MinNumDims) \/ (num_dims > MaxNumDims + 1)

\* _read_header, `if (num_dims < 1) or (num_dims > 6)`
InvalidNumDims(num_dims) == (num_dims < MinNumDims) \/ (num_dims > MaxNumDims)

\* a decoder that keeps the num_bytes_per_entry read from the stream
HeaderTrustingStoredWidth(dt_code, num_bytes_per_entry, uses64bitdims, dims) ==
    LET dt == _dt_from_dt_code(dt_code) IN
    IF dt = NoneDt THEN None
    ELSE LET H == [MdaHeader(dt, dims) EXCEPT
                      !.num_bytes_per_entry = num_bytes_per_entry]
         IN  IF uses64bitdims
             THEN [H EXCEPT !.uses64bitdims = TRUE,
                            !.header_size = 3 * 4 + H.num_dims * 8]
             ELSE H

\* _read_header once the fields are read: the type lookup, the header
\* object, the wide-mode override.  num_bytes_per_entry is the value read from
\* the stream; the code does not use it.
HeaderFromFields(dt_code, num_bytes_per_entry, uses64bitdims, dims) ==
    LET dt == _dt_from_dt_code(dt_code) IN
    IF dt = NoneDt THEN None
    ELSE LET H == MdaHeader(dt, dims) IN
         IF uses64bitdims
         THEN [H EXCEPT !.uses64bitdims = TRUE,
                        !.header_size = 3 * 4 + H.num_dims * 8]
         ELSE H

\* The body of _read_header's try block on the bytes f.  A short read makes
\* struct.unpack raise, which the except clause turns into None.
ParseHeader(f) ==
    IF ~CanRead(f, 0, 12) THEN None
    ELSE LET dt_code == _read_int32(f, 0)
             num_bytes_per_entry == _read_int32(f, 4)
             num_dims0 == _read_int32(f, 8)
             uses64bitdims == num_dims0 < 0
             num_dims == IF num_dims0 < 0 THEN -num_dims0 ELSE num_dims0
             w == IF uses64bitdims THEN 8 ELSE 4
         IN  IF InvalidNumDims(num_dims) THEN None
             ELSE IF ~CanRead(f, 12, w * num_dims) THEN None
             ELSE HeaderFromFields(dt_code, num_bytes_per_entry, uses64bitdims,
                      [j \in 1..num_dims |->
                          IF uses64bitdims THEN _read_int64(f, 12 + 8 * (j - 1))
                          ELSE _read_int32(f, 12 + 4 * (j - 1))])

\* _read_header(path) for a local path; open() of a missing file raises
\* outside the try block.
_read_header(f) ==
    IF ~IsFile(f) THEN Raise("FileNotFoundError") ELSE ParseHeader(f.bytes)

\* _header_from_file(f): the same decoding on an open file object
_header_from_file(f) == ParseHeader(f.bytes)

\* the loop `for j in range(0, H.num_dims): _write_int64/32(f, H.dims[j])`
RECURSIVE DimsBytes(_, _, _)
DimsBytes(H, wide, j) ==
    IF j > H.num_dims THEN <<>>
    ELSE RCat(IF wide THEN _write_int64(H.dims[j]) ELSE _write_int32(H.dims[j]),
              DimsBytes(H, wide, j + 1))

\* an encoder that writes the count of a wide header without the minus sign
HeaderBytesCountNotNegated(H) ==
    RCat(_write_int32(H.dt_code),
    RCat(_write_int32(H.num_bytes_per_entry),
    RCat(_write_int32(H.num_dims), DimsBytes(H, H.uses64bitdims, 1))))

\* the bytes _write_header writes for H
HeaderBytes(H) ==
    RCat(_write_int32(H.dt_code),
    RCat(_write_int32(H.num_bytes_per_entry),
         IF H.uses64bitdims
         THEN RCat(_write_int32(-H.num_dims), DimsBytes(H, TRUE, 1))
         ELSE RCat(_write_int32(H.num_dims), DimsBytes(H, FALSE, 1))))

\* _write_header(path, H, rewrite): [ret, file].  "r+b" writes over the start
\* of the existing bytes and needs the file to exist; "wb" starts from an
\* empty file.
_write_header(f, H, rewrite) ==
    IF rewrite /\ ~IsFile(f)
    THEN [ret |-> Raise("FileNotFoundError"), file |-> f]
    ELSE [ret |-> True,
          file |-> File(IF rewrite THEN WriteAt(f.bytes, 0, HeaderBytes(H))
                        ELSE HeaderBytes(H))]

----------------------------------------------------------------------------
(* Whole-array I/O *)

\* readmda(path) for a .mda path
readmda(f) ==
    LET H == _read_header(f) IN
    IF IsRaise(H) THEN H
    ELSE IF H = None THEN None
    ELSE LET ret == fromfile(f.bytes, H.header_size, H.dt, H.dimprod)
             arr == ReshapeF(ret.data, H.dt, H.dims)
         IN  IF IsRaise(arr) THEN None ELSE arr

\* _writemda, `if dt_code is None`: _dt_code_from_dt(dt) is None exactly for
\* the dt outside its table
UnexpectedDataType(dt) == dt \notin DTypes

\* the header _writemda writes: always 4-byte dimension fields
WritemdaHeaderBytes(X, dt) ==
    RCat(_write_int32(_dt_code_from_dt(dt)),
    RCat(_write_int32(get_num_bytes_per_entry_from_dt(dt)),
    RCat(_write_int32(ndim(X)),
         DimsBytes([num_dims |-> ndim(X), dims |-> X.shape], FALSE, 1))))

\* _writemda(X, fname, dt): [ret, file].  fault: A.tofile(f) raises (the
\* header is on disk, the data is not).
_writemda(X, f, dt, fault) ==
    IF UnexpectedDataType(dt) THEN [ret |-> False, file |-> f]
    ELSE IF fault
    THEN [ret |-> False, file |-> File(WritemdaHeaderBytes(X, dt))]
    ELSE [ret |-> True,
          file |-> File(RCat(WritemdaHeaderBytes(X, dt),
                             ElemsToBytes(FlattenF(astype(X, dt)), dt)))]

----------------------------------------------------------------------------
(* appendmda *)

\* `for j in range(num_dims-1): if (X.shape[j] != X.shape[j])`: the test
\* compares X.shape[j] with itself
IncompatibleDims(H, X) ==
    \E j \in 1..(Len(H.dims) - 1) : X.shape[j] # X.shape[j]

\* appendmda(X, path): [ret, file].  fault: A.tofile(f) raises.
appendmda(X, f, fault) ==
    LET H == _read_header(f) IN
    IF IsRaise(H) THEN [ret |-> H, file |-> f]
    ELSE IF H = None THEN [ret |-> None, file |-> f]
    ELSE IF Len(H.dims) # Len(X.shape) THEN [ret |-> None, file |-> f]
    ELSE IF IncompatibleDims(H, X) THEN [ret |-> None, file |-> f]
    ELSE LET num_entries_old == Prod(H.dims)
             num_dims == Len(H.dims)
             H2 == [H EXCEPT !.dims[num_dims] =
                                 H.dims[num_dims] + X.shape[num_dims]]
             f2 == _write_header(f, H2, TRUE).file
         IN  IF fault THEN [ret |-> False, file |-> f2]
             ELSE [ret |-> True,
                   file |-> File(WriteAt(f2.bytes,
                       H2.header_size + H2.num_bytes_per_entry * num_entries_old,
                       ElemsToBytes(FlattenF(astype(X, H2.dt)), H2.dt)))]

----------------------------------------------------------------------------
(* DiskReadMda: H is self._header, f the bytes at self._path *)

\* _read_chunk_1d_helper(path0, N, offset=offset); dt is self._header.dt.
\* f.seek of a negative offset raises OSError; fault: np.fromfile raises.
\* Both end in the except clause.
_read_chunk_1d_helper(f, dt, N, offset, fault) ==
    IF ~IsFile(f) THEN Raise("FileNotFoundError")
    ELSE IF offset < 0 \/ fault THEN None
    ELSE fromfile(f.bytes, offset, dt, N)

\* _read_chunk_1d(i, N) for a local path
_read_chunk_1d(H, f, i, N, fault) ==
    IF ~IsHeader(H) THEN Raise("AttributeError")
    ELSE _read_chunk_1d_helper(f, H.dt, N,
             H.header_size + H.num_bytes_per_entry * i, fault)

\* np.reshape(X, shape, order='F') for what _read_chunk_1d returned: None
\* becomes a one-element object array, or ValueError for any other size
np_reshape(X, shape) ==
    IF IsRaise(X) THEN X
    ELSE IF X = None
         THEN IF Prod(shape) = 1
              THEN Array("object", shape, RFill(1, None))
              ELSE Raise("ValueError")
    ELSE ReshapeF(X.data, X.dt, shape)

\* readChunk, `if N1 != self.N1()`
N1Mismatch(N1, H) == N1 # H.dims[1]

\* a reader that does not compare N2
N2MismatchIgnored(N2, H) == FALSE

\* readChunk, `if N2 != self.N2()`
N2Mismatch(N2, H) == N2 # H.dims[2]

\* readChunk(i1, i2, i3, N1, N2, N3)
readChunk(H, f, i1, i2, i3, N1, N2, N3, fault) ==
    IF i2 < 0 THEN _read_chunk_1d(H, f, i1, N1, fault)
    ELSE IF ~IsHeader(H) THEN Raise("AttributeError")
    ELSE IF i3 < 0
    THEN IF N1Mismatch(N1, H) THEN None
         ELSE LET X == _read_chunk_1d(H, f, i1 + N1 * i2, N1 * N2, fault) IN
              IF X = None THEN None ELSE np_reshape(X, <<N1, N2>>)
    ELSE IF N1Mismatch(N1, H) THEN None
         ELSE IF Len(H.dims) < 2 THEN Raise("IndexError")
         ELSE IF N2Mismatch(N2, H) THEN None
         ELSE np_reshape(_read_chunk_1d(H, f, i1 + N1 * i2 + N1 * N2 * i3,
                                        N1 * N2 * N3, fault),
                         <<N1, N2, N3>>)

----------------------------------------------------------------------------
(* Inputs *)

\* axis sizes 1..MaxDim on 1 to 6 axes, at most MaxElems elements
SmallShapes ==
    {s \in UNION {[1..n -> 1..MaxDim] : n \in 1..MaxNumDims} :
        Prod(s) <= MaxElems}

\* the small shapes on up to 3 axes, which readChunk addresses
ChunkShapes == {s \in SmallShapes : Len(s) <= 3}

\* shapes with one axis at or just over the wide/narrow threshold
HugeShapes ==
    {<<WideThreshold>>, <<WideThreshold + 1>>, <<1, WideThreshold + 1>>}

\* first element of the ramp a dtype's arrays hold: values that use the sign,
\* the second byte, the third byte, the exponent and the fraction
TypeBase(dt) ==
    CASE dt = "uint8" -> 248
      [] dt = "int16" -> -2
      [] dt = "uint16" -> 254
      [] dt = "int32" -> -65538
      [] dt = "uint32" -> 65534
      [] dt = "float32" -> 1
      [] dt = "float64" -> -2

\* the array of dtype dt and the shape whose C-order elements are
\* base, base+1, ...: every element differs from the others
Ramp(dt, shape, base) ==
    Array(dt, shape,
          RFromSeq([c \in 1..Prod(shape) |-> Val(base + c - 1)]))

\* a uint8 array holding 1 at the first position and 0 elsewhere
Spike(shape) ==
    Array("uint8", shape, RCat(RFill(1, Val(1)), RFill(Prod(shape) - 1, Val(0))))

SmallArrays == {Ramp(dt, s, TypeBase(dt)) : dt \in DTypes, s \in SmallShapes}
ChunkArrays == {Ramp(dt, s, TypeBase(dt)) : dt \in DTypes, s \in ChunkShapes}
HugeArrays == {Spike(s) : s \in HugeShapes}

\* whether X.astype(dt) keeps every value
Castable(X, dt) == AllInRange(X.data, dt)

\* the dtypes a caller writes an array of dtype dt as: its own, and for
\* float64 (numpy's default) every dtype that holds its values
WriteDtypes(X) ==
    {X.dt} \cup {dt \in DTypes : X.dt = "float64" /\ Castable(X, dt)}

\* arrays a caller appends: float64 ramps 1, 2, ..., which every dtype holds
AppendArrays == {Ramp("float64", s, 1) : s \in ChunkShapes}

\* readChunk arguments; the axes a call does not use keep their defaults
ChunkCalls ==
    {c \in [i1 : -1..MaxStart, i2 : -1..1, i3 : -1..1,
            N1 : 1..MaxDim, N2 : 1..MaxDim, N3 : 1..MaxDim, fault : BOOLEAN] :
        /\ c.i2 < 0 => (c.i3 = -1 /\ c.N2 = 1 /\ c.N3 = 1)
        /\ c.i3 < 0 => c.N3 = 1
        /\ c.i2 >= 0 => c.i1 \in {0, 1}}

\* dimension lists of headers: the small shapes, and those with one axis at
\* the threshold, just over it, or at the largest 4-byte value
HeaderShapes ==
    SmallShapes \cup
    {[j \in 1..n |-> IF j = k THEN d ELSE 1] :
        n \in 1..MaxNumDims, k \in 1..MaxNumDims,
        d \in {WideThreshold, WideThreshold + 1, 2147483647}}

\* the wide-mode header _read_header returns for a stream with a negative
\* dimension count
AsWide(H) ==
    [H EXCEPT !.uses64bitdims = TRUE, !.header_size = 3 * 4 + H.num_dims * 8]

\* header objects: as MdaHeader builds them, and as _read_header returns them
ValidHeaders ==
    {MdaHeader(dt, dims) : dt \in DTypes, dims \in HeaderShapes} \cup
    {AsWide(MdaHeader(dt, dims)) : dt \in DTypes, dims \in HeaderShapes}

\* streams another program left at the path: any type code, width and
\* dimension count, with all, none or not quite all of the dimension fields
ExternalStreams ==
    [dt_code : -9..-1, width : {1, 2, 3, 4, 8},
     num_dims : -(MaxNumDims + 1)..(MaxNumDims + 1), dim : 1..MaxDim,
     keep : {"all", "fields", "short"}, data : 0..MaxData]

\* the bytes of an external stream
StreamBytes(e) ==
    LET n == Abs(e.num_dims)
        hdr == HeaderBytes([dt_code |-> e.dt_code,
                            num_bytes_per_entry |-> e.width,
                            uses64bitdims |-> e.num_dims < 0,
                            num_dims |-> n,
                            dims |-> [j \in 1..n |-> e.dim]])
    IN  CASE e.keep = "all" -> RCat(hdr, RFill(e.data, 7))
          [] e.keep = "fields" -> RTake(hdr, 12)
          [] e.keep = "short" -> RTake(hdr, RLen(hdr) - 1)

----------------------------------------------------------------------------
(* State machine.  The file is created by the first call of a behaviour:   *)
(* every creating call opens the path with "wb", which discards what was   *)
(* there, so a later creating call reaches the contents it reaches from    *)
(* the start.                                                              *)

Init ==
    /\ file = NoFile
    /\ last = [op |-> "none"]
    /\ made = [by |-> "none", appends |-> 0, arg |-> None]

\* a call _writemda(X, path, dt)
CallWritemda(X, dt, fault) ==
    \E r \in {_writemda(X, file, dt, fault)} :
    /\ file' = r.file
    /\ last' = [op |-> "_writemda", X |-> X, dt |-> dt, fault |-> fault,
                ret |-> r.ret, pre |-> file]
    /\ made' = IF IsFile(r.file)
               THEN [by |-> IF r.ret = True THEN "written" ELSE "failed",
                     appends |-> 0, arg |-> [X |-> X, dt |-> dt]]
               ELSE made

\* writemda(X, path, dtype=dt) and the writemda32 ... writemda16ui wrappers
Writemda ==
    /\ last.op = "none"
    /\ \E X \in SmallArrays \cup HugeArrays, fault \in BOOLEAN :
           \E dt \in WriteDtypes(X) \cup {"int8"} :
               /\ IF dt = "int8" THEN X.dt = "uint8" /\ ~fault ELSE TRUE
               /\ CallWritemda(X, dt, fault)

\* the same calls for arrays on up to 3 axes
WritemdaSmall ==
    /\ last.op = "none"
    /\ \E X \in ChunkArrays, fault \in BOOLEAN :
           \E dt \in WriteDtypes(X) : CallWritemda(X, dt, fault)

\* the same calls for arrays a chunked reader is opened on
WritemdaForChunks ==
    /\ last.op = "none"
    /\ \E X \in ChunkArrays \cup HugeArrays, fault \in BOOLEAN :
           CallWritemda(X, X.dt, fault)

\* a call appendmda(X, path); the model stops after MaxAppends calls and
\* appends only values the file's dtype holds
CallAppendmda(X, fault) ==
    /\ made.appends < MaxAppends
    /\ \E H \in {_read_header(file)}, r \in {appendmda(X, file, fault)} :
        /\ IF IsHeader(H) THEN Castable(X, H.dt) ELSE TRUE
        /\ file' = r.file
        /\ last' = [op |-> "appendmda", X |-> X, fault |-> fault,
                    ret |-> r.ret, pre |-> file]
        /\ made' = [made EXCEPT
                        !.appends = @ + 1,
                        !.by = IF r.ret = True /\ @ \in {"written", "appended"}
                               THEN "appended"
                               ELSE IF r.ret = False THEN "failed" ELSE @]

Appendmda ==
    \E X \in AppendArrays, fault \in BOOLEAN : CallAppendmda(X, fault)

\* a call readmda(path)
Readmda ==
    /\ last' = [op |-> "readmda", ret |-> readmda(file)]
    /\ UNCHANGED <<file, made>>

\* DiskReadMda(path).readChunk(i1, i2, i3, N1, N2, N3); the constructor reads
\* the header and raises what _read_header raises.  A read leaves the file as
\* it is, so a second read of a behaviour returns what a first read returns.
ReadChunk ==
    /\ last.op # "readChunk"
    /\ \E c \in ChunkCalls, H \in {_read_header(file)} :
        /\ last' = [op |-> "readChunk", c |-> c,
                    ret |-> IF IsRaise(H) THEN H
                            ELSE readChunk(H, file, c.i1, c.i2, c.i3,
                                           c.N1, c.N2, c.N3, c.fault)]
        /\ UNCHANGED <<file, made>>

\* a call _write_header(path, H) (rewrite=False)
WriteHeader ==
    /\ last.op = "none"
    /\ \E H \in ValidHeaders :
       \E r \in {_write_header(file, H, FALSE)} :
        /\ file' = r.file
        /\ last' = [op |-> "_write_header", H |-> H, ret |-> r.ret, pre |-> file]
        /\ made' = [by |-> "header", appends |-> 0, arg |-> H]

\* another program leaves a stream at the path
ExternalFile ==
    /\ last.op = "none"
    /\ \E e \in ExternalStreams :
        /\ file' = File(StreamBytes(e))
        /\ last' = [op |-> "external"]
        /\ made' = [by |-> "external", appends |-> 0, arg |-> e]

\* a call readmda_header(path), which is _read_header(path)
ReadHeader ==
    /\ last' = [op |-> "_read_header", ret |-> _read_header(file)]
    /\ UNCHANGED <<file, made>>

\* a call _header_from_file(f) on the file opened for reading
HeaderFromFile ==
    /\ IsFile(file)
    /\ last' = [op |-> "_header_from_file", ret |-> _header_from_file(file)]
    /\ UNCHANGED <<file, made>>

\* whole-array write and read
Next == Writemda \/ Readmda

Spec == Init /\ [][Next]_vars

\* write, append, read back
NextAppend == WritemdaSmall \/ Appendmda \/ Readmda

SpecAppend == Init /\ [][NextAppend]_vars

\* write, then chunked reads
NextChunk == WritemdaForChunks \/ ReadChunk

SpecChunk == Init /\ [][NextChunk]_vars

\* header streams written by _write_header or found at the path, decoded
NextHeader == WriteHeader \/ ExternalFile \/ ReadHeader \/ HeaderFromFile

SpecHeader == Init /\ [][NextHeader]_vars

----------------------------------------------------------------------------
(* Claims on whole-array I/O and append *)

\* the header of the file as it was before the last call
PreHeader == _read_header(last.pre)

\* whether some axis other than the last of shape differs from dims
NonLastAxisDiffers(shape, dims) ==
    \E j \in 1..(Len(dims) - 1) : shape[j] # dims[j]

\* C1: after _writemda wrote an array, of 1 to 6 axes, as any supported
\* element type, readmda returns from the file an array of that type with the
\* same shape and the same element values at the same positions.
C1_RoundTrip ==
    (last.op = "readmda" /\ made.by = "written")
        => /\ IsArray(last.ret)
           /\ last.ret.dt = made.arg.dt
           /\ last.ret.shape = made.arg.X.shape
           /\ last.ret.data = made.arg.X.data

\* C2: after appendmda accepted X on an array file holding A, readmda
\* returns the concatenation of A and X along the last axis: X agrees with A
\* on every other axis, the last axis is the sum, and the elements in
\* first-axis-fastest order are those of A followed by those of X.
C2_AppendConcatenates ==
    (last.op = "appendmda" /\ made.by = "appended")
        => LET A == readmda(last.pre)
               B == readmda(file)
               n == Len(A.shape)
           IN  /\ IsArray(A) /\ IsArray(B)
               /\ ~NonLastAxisDiffers(last.X.shape, A.shape)
               /\ B.shape = [A.shape EXCEPT ![n] = @ + last.X.shape[n]]
               /\ FlattenF(B) = RCat(FlattenF(A), FlattenF(last.X))

\* C3: appendmda returns None and leaves the file as it was when X has as
\* many axes as the stored array and differs from it on an axis other than
\* the last.
C3_AppendRejectsMismatch ==
    (/\ last.op = "appendmda"
     /\ IsHeader(PreHeader)
     /\ Len(last.X.shape) = Len(PreHeader.dims)
     /\ NonLastAxisDiffers(last.X.shape, PreHeader.dims))
        => (last.ret = None /\ file = last.pre)

\* C9: after _writemda and appendmda calls that all returned True the file
\* is its header followed by exactly element_count * bytes_per_entry bytes.
C9_FileSize ==
    made.by \in {"written", "appended"}
        => LET H == _read_header(file) IN
           /\ IsHeader(H)
           /\ RLen(file.bytes)
                  = H.header_size + Prod(H.dims) * H.num_bytes_per_entry

----------------------------------------------------------------------------
(* Claims on the header codec, under SpecHeader *)

\* C4: decoding the bytes _write_header produced for a valid header h gives
\* a header equal to h in element type, bytes per entry, dimension count,
\* dimensions, wide flag and header byte length; narrow and wide headers,
\* 1 to 6 dimensions, a dimension exactly at the threshold included.
C4_HeaderRoundTrip ==
    (last.op = "_read_header" /\ made.by = "header")
        => /\ IsHeader(last.ret)
           /\ last.ret.dt = made.arg.dt
           /\ last.ret.num_bytes_per_entry = made.arg.num_bytes_per_entry
           /\ last.ret.num_dims = made.arg.num_dims
           /\ last.ret.dims = made.arg.dims
           /\ last.ret.uses64bitdims = made.arg.uses64bitdims
           /\ last.ret.header_size = made.arg.header_size

\* a 6-dimensional wide header with a dimension just over the threshold was
\* written and decoded
C4_Witness ==
    /\ last.op = "_read_header"
    /\ made.by = "header"
    /\ made.arg.num_dims = MaxNumDims
    /\ made.arg.dims[MaxNumDims] = WideThreshold + 1
    /\ made.arg.uses64bitdims
    /\ IsHeader(last.ret)

\* the dimension count an external stream's count field resolves to
ResolvedNumDims == Abs(made.arg.num_dims)

\* C7: _read_header and _header_from_file return None for every stream whose
\* dimension-count field resolves, by absolute value, outside [1,6], whatever
\* the type code and the rest of the stream.
C7_RejectsDimCount ==
    (/\ made.by = "external"
     /\ last.op \in {"_read_header", "_header_from_file"}
     /\ RLen(file.bytes) >= 12
     /\ (ResolvedNumDims < 1 \/ ResolvedNumDims > 6))
        => last.ret = None

\* a stream with a supported type code, a count of 7 and all 7 dimensions was
\* refused
C7_Witness ==
    /\ made.by = "external"
    /\ last.op = "_read_header"
    /\ made.arg.num_dims = 7
    /\ made.arg.keep = "all"
    /\ _dt_from_dt_code(made.arg.dt_code) # NoneDt
    /\ last.ret = None

\* an external stream that decodes: supported type code, 1 to 6 dimensions,
\* every dimension field present
Decodable(e) ==
    /\ _dt_from_dt_code(e.dt_code) # NoneDt
    /\ ResolvedNumDims \in 1..6
    /\ e.keep = "all"

\* the width the stream's type code implies
ImpliedWidth(e) == get_num_bytes_per_entry_from_dt(_dt_from_dt_code(e.dt_code))

\* the last call decoded a stream whose stored width disagrees with its type
WidthMismatchDecoded ==
    /\ made.by = "external"
    /\ last.op = "_read_header"
    /\ Decodable(made.arg)
    /\ made.arg.width # ImpliedWidth(made.arg)

\* C10: when the stored bytes_per_entry disagrees with the width the type
\* code implies, _read_header tolerates it and the decoded header's
\* bytes_per_entry is the stored value.
C10_TrustsStoredWidth ==
    WidthMismatchDecoded
        => /\ IsHeader(last.ret)
           /\ last.ret.num_bytes_per_entry = made.arg.width

\* C10: when the stored bytes_per_entry disagrees with the width the type
\* code implies, _read_header tolerates it and the decoded header's
\* bytes_per_entry is the width implied by the type code; the stored value
\* is read and not used.
C10_WidthFromType ==
    WidthMismatchDecoded
        => /\ IsHeader(last.ret)
           /\ last.ret.num_bytes_per_entry = ImpliedWidth(made.arg)

\* a float64 stream that stores width 1 was decoded
C10_Witness ==
    /\ WidthMismatchDecoded
    /\ IsHeader(last.ret)
    /\ last.ret.dt = "float64"
    /\ made.arg.width = 1

----------------------------------------------------------------------------
(* Claims on chunked reads, under SpecChunk *)

\* the header the reader of the last readChunk call holds
ReaderHeader == _read_header(file)

\* C5: on an array file, a flat chunk read with start >= 0 and
\* start + count <= element_count returns the elements start .. start+count-1
\* of the column-major flattening of what readmda returns from the file.
C5_ChunkedEquivalence ==
    (/\ last.op = "readChunk"
     /\ made.by = "written"
     /\ last.c.i2 < 0
     /\ ~last.c.fault
     /\ last.c.i1 >= 0
     /\ IsHeader(ReaderHeader)
     /\ last.c.i1 + last.c.N1 <= Prod(ReaderHeader.dims))
        => LET A == readmda(file) IN
           /\ IsArray(A)
           /\ IsArray(last.ret)
           /\ last.ret.shape = <<last.c.N1>>
           /\ last.ret.data = RSub(FlattenF(A), last.c.i1, last.c.N1)

\* the size arguments of the last readChunk call disagree with the stored
\* dimensions on a non-final axis
AxisSizeMismatch ==
    /\ last.op = "readChunk"
    /\ IsHeader(ReaderHeader)
    /\ last.c.i2 >= 0
    /\ \/ last.c.N1 # ReaderHeader.dims[1]
       \/ /\ last.c.i3 >= 0
          /\ Len(ReaderHeader.dims) >= 2
          /\ last.c.N2 # ReaderHeader.dims[2]

\* C6: readChunk returns None, and no data, when N1 differs from the first
\* dimension in a 2-axis or 3-axis read or N2 differs from the second
\* dimension in a 3-axis read.
C6_RejectsAxisMismatch == AxisSizeMismatch => last.ret = None

\* a 3-axis read whose N1 agreed and whose N2 disagreed was refused although
\* the file holds the elements it asked for
C6_Witness ==
    /\ AxisSizeMismatch
    /\ last.c.i3 >= 0
    /\ last.c.N1 = ReaderHeader.dims[1]
    /\ last.c.N1 * last.c.N2 * (last.c.i3 + last.c.N3) <= Prod(ReaderHeader.dims)
    /\ made.by = "written"
    /\ ~last.c.fault
    /\ last.ret = None

\* C8: a flat chunk read of count elements fails, and returns no buffer with
\* fewer than count elements, when the underlying read fails or the file
\* holds fewer bytes than [offset, offset + bytes_per_entry*count) demands.
C8_NoPartialBuffer ==
    (/\ last.op = "readChunk"
     /\ last.c.i2 < 0
     /\ IsHeader(ReaderHeader))
        => LET H == ReaderHeader
               offset == H.header_size + H.num_bytes_per_entry * last.c.i1
           IN  (\/ last.c.fault
                \/ RLen(file.bytes) < offset + H.num_bytes_per_entry * last.c.N1)
                   => last.ret = None

----------------------------------------------------------------------------
(* Resources: the descriptors a call holds open and the temporary files it *)
(* has staged.  A descriptor is named by the call that acquires it and the *)
(* source line of that call; a staged file by the line that creates it.    *)

NoResources == [fds |-> {}, tmpfiles |-> {}]

Fd(call, line) == [call |-> call, line |-> line]

Acquire(r, fd) == [r EXCEPT !.fds = @ \cup {fd}]
Release(r, fd) == [r EXCEPT !.fds = @ \ {fd}]
Stage(r, t) == [r EXCEPT !.tmpfiles = @ \cup {t}]
Remove(r, t) == [r EXCEPT !.tmpfiles = @ \ {t}]

\* where a remote operation can fail: nowhere, in requests.get, while the
\* response is copied to the temporary file, or in the read of the staged copy
Faults == {"none", "get", "iter_content", "read"}

\* the temporary file tempfile.mkstemp() creates
TmpFname == [call |-> "tempfile.mkstemp", line |-> 152]

\* _download_bytes_to_tmpfile(url, start, end) for a url that serves bytes:
\* [raised, tmp, res].  mkstemp returns an open descriptor and the name; the
\* with block opens the name again and closes that second descriptor on
\* both exits.
_download_bytes_to_tmpfile(r, bytes, start, end, fault) ==
    IF fault = "get" THEN [raised |-> TRUE, tmp |-> NoFile, res |-> r]
    ELSE LET fd == Fd("tempfile.mkstemp", 152)
             f == Fd("open(tmp_fname, 'wb')", 153)
             r1 == Stage(Acquire(r, fd), TmpFname)
             r2 == Acquire(r1, f)
         IN  IF fault = "iter_content"
             THEN [raised |-> TRUE, tmp |-> NoFile, res |-> Release(r2, f)]
             ELSE [raised |-> FALSE,
                   tmp |-> File(RSub(bytes, start, end - start)),
                   res |-> Release(r2, f)]

\* the descriptors of _read_header(path) for a local path: open() is outside
\* the try block; f.close() is on each return and in the except branch
LocalHeaderResources(r, f, fault) ==
    IF ~IsFile(f) THEN r
    ELSE LET fd == Fd("open(path, 'rb')", 172)
             r1 == Acquire(r, fd)
         IN  IF fault = "read" THEN Release(r1, fd)
             ELSE IF ParseHeader(f.bytes) = None THEN Release(r1, fd)
             ELSE Release(r1, fd)

\* _read_header(path) for a url serving bytes, or for the local file f:
\* [ret, res]
HeaderCall(r, f, remote, fault) ==
    IF remote
    THEN LET d == _download_bytes_to_tmpfile(r, f.bytes, 0, 200, fault) IN
         IF d.raised THEN [ret |-> Raise("RequestException"), res |-> d.res]
         ELSE [ret |-> IF fault = "read" THEN None ELSE _read_header(d.tmp),
               res |-> Remove(LocalHeaderResources(d.res, d.tmp, fault),
                              TmpFname)]
    ELSE [ret |-> IF fault = "read" /\ IsFile(f) THEN None ELSE _read_header(f),
          res |-> LocalHeaderResources(r, f, fault)]

\* the descriptors of _read_chunk_1d_helper(path0, N, offset=...)
ChunkHelperResources(r, f, fault) ==
    IF ~IsFile(f) THEN r
    ELSE LET fd == Fd("open(path0, 'rb')", 132)
             r1 == Acquire(r, fd)
         IN  IF fault = "read" THEN Release(r1, fd) ELSE Release(r1, fd)

\* _read_chunk_1d(i, N) on a handle holding header H, for a url serving the
\* bytes of f or for the local file f: [ret, res].  os.remove(tmp_fname) is
\* commented out.
ChunkCall(r, H, f, i, N, remote, fault) ==
    IF ~IsHeader(H) THEN [ret |-> Raise("AttributeError"), res |-> r]
    ELSE LET offset == H.header_size + H.num_bytes_per_entry * i IN
         IF remote
         THEN LET d == _download_bytes_to_tmpfile(r, f.bytes, offset,
                           offset + H.num_bytes_per_entry * N, fault)
              IN  IF d.raised
                  THEN [ret |-> Raise("RequestException"), res |-> d.res]
                  ELSE [ret |-> _read_chunk_1d_helper(d.tmp, H.dt, N, 0,
                                                      fault = "read"),
                        res |-> ChunkHelperResources(d.res, d.tmp, fault)]
         ELSE [ret |-> _read_chunk_1d_helper(f, H.dt, N, offset,
                                             fault = "read"),
               res |-> ChunkHelperResources(r, f, fault)]

\* the descriptors of appendmda(X, path) for a local path: those of
\* _read_header, of _write_header(path, H, rewrite=True), and the one opened
\* for the data, closed in the try block and again in the finally block
AppendResources(r, X, f, fault) ==
    LET H == _read_header(f)
        r1 == LocalHeaderResources(r, f, "none")
    IN  IF ~IsHeader(H) THEN r1
        ELSE IF Len(H.dims) # Len(X.shape) THEN r1
        ELSE IF IncompatibleDims(H, X) THEN r1
        ELSE LET hfd == Fd("open(path, 'r+b')", 278)
                 r2 == Release(Acquire(r1, hfd), hfd)
                 fd == Fd("open(path, 'r+b')", 458)
                 r3 == Acquire(r2, fd)
             IN  IF fault THEN Release(r3, fd)
                 ELSE Release(Release(r3, fd), fd)

\* arrays the files of the resource specification hold
ResourceArrays ==
    {Ramp(dt, s, TypeBase(dt)) :
        dt \in {"uint8", "float64"}, s \in {<<1>>, <<2>>, <<2, 2>>}}

\* writemda for those arrays
WritemdaForResources ==
    /\ last.op = "none"
    /\ \E X \in ResourceArrays, fault \in BOOLEAN :
           CallWritemda(X, X.dt, fault)

\* whether a failure point belongs to a call: a local call has no download
FaultApplies(remote, fault) == remote \/ fault \in {"none", "read"}

\* DiskReadMda(path_or_url): the constructor decodes the header
OpenHandle ==
    \E remote \in BOOLEAN, fault \in Faults :
        /\ FaultApplies(remote, fault)
        /\ remote => IsFile(file)
        /\ \E c \in {HeaderCall(NoResources, file, remote, fault)} :
            last' = [op |-> "DiskReadMda", remote |-> remote, fault |-> fault,
                     ret |-> c.ret, res |-> c.res]
        /\ UNCHANGED <<file, made>>

\* readmda_header(path_or_url)
DecodeHeader ==
    \E remote \in BOOLEAN, fault \in Faults :
        /\ FaultApplies(remote, fault)
        /\ remote => IsFile(file)
        /\ \E c \in {HeaderCall(NoResources, file, remote, fault)} :
            last' = [op |-> "readmda_header", remote |-> remote,
                     fault |-> fault, ret |-> c.ret, res |-> c.res]
        /\ UNCHANGED <<file, made>>

\* readChunk(i1=i, N1=N) on a handle opened on the file or on a url serving it
ChunkRead ==
    \E remote \in BOOLEAN, fault \in Faults, i \in 0..MaxStart, N \in 1..MaxDim :
        /\ FaultApplies(remote, fault)
        /\ IsFile(file)
        /\ \E c \in {ChunkCall(NoResources, _read_header(file), file, i, N,
                               remote, fault)} :
            last' = [op |-> "_read_chunk_1d", remote |-> remote,
                     fault |-> fault, i |-> i, N |-> N,
                     ret |-> c.ret, res |-> c.res]
        /\ UNCHANGED <<file, made>>

\* appendmda(X, path) on the local file
AppendTracked ==
    /\ made.appends < MaxAppends
    /\ \E X \in AppendArrays, fault \in BOOLEAN :
       \E a \in {appendmda(X, file, fault)} :
        /\ file' = a.file
        /\ last' = [op |-> "appendmda", remote |-> FALSE, X |-> X,
                    fault |-> fault, ret |-> a.ret,
                    res |-> AppendResources(NoResources, X, file, fault)]
        /\ made' = [made EXCEPT !.appends = @ + 1]

\* open, header decode, chunk read and append, local and remote
NextResource ==
    WritemdaForResources \/ OpenHandle \/ DecodeHeader \/ ChunkRead
        \/ AppendTracked

SpecResource == Init /\ [][NextResource]_vars

----------------------------------------------------------------------------
(* Claim on resources, under SpecResource *)

\* the calls the resource claim is about
ResourceOps == {"DiskReadMda", "readmda_header", "_read_chunk_1d", "appendmda"}

\* C11: after an open, header decode, chunk read (local or remote) or append,
\* on every exit path, every descriptor the call opened is closed and every
\* temporary file it staged for a remote range is removed.
C11_ResourcesReleased ==
    last.op \in ResourceOps
        => (last.res.fds = {} /\ last.res.tmpfiles = {})

============================================================================
